---- MODULE Spec2Model ----
(***************************************************************************)
(* A model of MqttService (weather-station/src/mqtt/mqtt-service.ts): the  *)
(* flow-controlled publish queue, the connection life cycle with its       *)
(* presence announcements, the MQTT 5 request/response pattern and the     *)
(* ping/pong latency probe.                                                *)
(*                                                                         *)
(* Scheduling is that of one JavaScript event loop per service: a handler  *)
(* (a public method call, a 'connect' or 'message' event, a timer, a       *)
(* transport callback) runs to completion, so every action below is one    *)
(* whole handler.  Time is in milliseconds; a timer fires when its         *)
(* deadline is reached and the clock does not pass a due timer.            *)
(***************************************************************************)
EXTENDS Integers, Sequences, FiniteSets, TLC

(* ------------------------------ bounds -------------------------------- *)
\* publish() calls explored per service
MaxPublishes == 12
\* the clock stops here while the publish queue is explored
MaxQueueTime == 1000
\* connection drops per service
MaxDrops == 1
\* publish() calls explored while the callers' options are explored
MaxOptionPublishes == 3
\* request() calls explored per service
MaxRequests == 1
\* the clock stops here while requests are explored
MaxRequestTime == 3000
\* values of the random suffix of a correlation id
MaxRand == 2
\* publishes the transport rejects, per service
MaxErrors == 1
\* inbound messages explored per service on a topic with a request handler
MaxServed == 2
\* ticks of the server's broadcast interval explored
MaxBroadcasts == 3
\* control commands explored per server
MaxCommands == 2
\* dashboard sockets connected at a time
MaxSockets == 1
\* the messagesPerSecond of the setRate commands explored
SetRateArg == 2
\* GET /api/test-expiry calls explored
MaxApiCalls == 1
\* the clock stops here while the control channel is explored
MaxControlTime == 2000
\* the clock stops here while the expiry timers are explored
MaxServerTime == 8000
\* sendPing() calls explored per service
MaxPings == 2
\* request() calls of the fixed-response-topic variant per service
MaxFixedRequests == 2
\* the clock stops here while that variant is explored
MaxFixedTime == 2000
\* publish() calls explored per service while pings are explored
MaxPingPublishes == 3
\* the clock stops here while pings are explored
MaxPingTime == 5000

(* ------------------------- program constants -------------------------- *)
MAX_MESSAGES_PER_SECOND == 10
RATE_WAIT_MS == 1000
PING_TIMEOUT_MS == 5000
DEFAULT_EXPIRY_S == 5
\* simulateMessageExpiry: setTimeout(..., 5000)
EXPIRY_MS == 5000
\* startDataBroadcast: setInterval(..., 1000)
BROADCAST_MS == 1000
\* the clock's step when no timer is due sooner
TICK_MS == 1000
\* ... while the expiry timers are explored
SERVER_TICK_MS == 2500
\* ... and while pings are explored
PING_TICK_MS == 2500

Node == {"A", "B"}
NoTimer == -1
NoCorr == <<-1, -1>>
\* correlation data no request of this client carries
OtherCorr == <<-2, -2>>
\* the timeout arguments of request()
RequestTimeouts == {1000, 2000}

\* A topic: a fixed name, or the response topic request() derives from the
\* request topic, the client id and the correlation data.
Topic(name) == [name |-> name, client |-> "", corr |-> NoCorr]
NoTopic == Topic("")

STATUS_TOPIC == Topic("weather/status")
CONTROL_TOPIC == Topic("weather/control")
PING_TOPIC == Topic("weather/ping")
PONG_TOPIC == Topic("weather/pong")
DATA_TOPIC == Topic("weather/temperature")
HUMIDITY_TOPIC == Topic("weather/humidity")
PRESSURE_TOPIC == Topic("weather/pressure")
ALL_TOPIC == Topic("weather/all")
ACK_TOPIC == Topic("weather/control/ack")
TEST_EXPIRY_TOPIC == Topic("weather/test-expiry")
\* the topics startDataBroadcast publishes with simulateMessageExpiry
ExpiryTopics == {HUMIDITY_TOPIC, PRESSURE_TOPIC}
\* the actions of the control messages explored
ControlActions == {"pause", "resume", "setRate", "calibrate"}
REQUEST_TOPIC == Topic("weather/request/reading")
\* the response topic the callers of the earlier request() pass
FIXED_RESPONSE_TOPIC == Topic("weather/response/reading")

VARIABLES
    svc,        \* svc[n]: the fields of the MqttService with clientId n
    retained,   \* the broker's retained value on the presence topic
    now         \* Date.now()

vars == <<svc, retained, now>>

(* ------------------------------ messages ------------------------------ *)
\* mqtt.IClientPublishOptions as the callers build them: given = FALSE is
\* the omitted argument, props = FALSE an absent 'properties' object, and
\* expiry = -1, NoTopic, NoCorr the properties it does not hold.
Options(qos, retain) ==
    [given |-> TRUE, qos |-> qos, retain |-> retain, props |-> FALSE,
     expiry |-> -1, responseTopic |-> NoTopic, correlationData |-> NoCorr]

NoOptions == [Options(0, FALSE) EXCEPT !.given = FALSE]

\* { qos: 1, properties: { contentType } }: properties without an expiry
PropsOnlyOptions == [Options(1, FALSE) EXCEPT !.props = TRUE]

\* { qos, retain, properties: { messageExpiryInterval } }
WithExpiry(qos, retain, expiry) ==
    [Options(qos, retain) EXCEPT !.props = TRUE, !.expiry = expiry]

\* the options arguments of publish() explored: omitted, without
\* properties, with an expiry of 5 or 60 s, with other properties only
CallerOptions ==
    {NoOptions, Options(1, TRUE), WithExpiry(1, TRUE, 5),
     WithExpiry(0, FALSE, 60), PropsOnlyOptions}

\* { qos: 1, properties: { responseTopic, correlationData } }
RequestOptions(rt, cd) ==
    [Options(1, FALSE) EXCEPT !.props = TRUE, !.responseTopic = rt,
                              !.correlationData = cd]

BasePayload(kind) ==
    [kind |-> kind, status |-> "", clientId |-> "", responderId |-> "",
     originalSender |-> "", correlationId |-> NoCorr, timestamp |-> -1,
     originalTimestamp |-> -1, action |-> "", messagesPerSecond |-> 0]

StatusPayload(status, n, t) ==
    [BasePayload("status") EXCEPT !.status = status, !.clientId = n,
                                  !.timestamp = t]

\* the application's payloads are opaque to the service
DataPayload == BasePayload("data")

\* { clientId, timestamp, correlationId }
PingPayload(n, id, t) ==
    [BasePayload("ping") EXCEPT !.clientId = n, !.correlationId = id,
                                !.timestamp = t]

\* (a pong that names the responder itself as the original sender)
PongPayloadOwnSender(n, ping, t) ==
    [BasePayload("pong") EXCEPT !.responderId = n,
                                !.originalSender = n,
                                !.correlationId = ping.correlationId,
                                !.originalTimestamp = ping.timestamp,
                                !.timestamp = t]

\* { responderId, originalSender, correlationId, originalTimestamp,
\*   timestamp }
PongPayload(n, ping, t) ==
    [BasePayload("pong") EXCEPT !.responderId = n,
                                !.originalSender = ping.clientId,
                                !.correlationId = ping.correlationId,
                                !.originalTimestamp = ping.timestamp,
                                !.timestamp = t]

\* the readings startDataBroadcast publishes: { ..., timestamp }
SensorPayload(t) == [BasePayload("data") EXCEPT !.timestamp = t]

\* the payload '' that clears a retained value
EmptyPayload == BasePayload("empty")

\* { status, timestamp } on the acknowledgment channel
AckPayload(status, t) ==
    [BasePayload("ack") EXCEPT !.status = status, !.timestamp = t]

\* { action, messagesPerSecond } on the control channel
ControlPayload(action, k) ==
    [BasePayload("control") EXCEPT !.action = action,
                                   !.messagesPerSecond = k]

\* { qos, retain, properties: { messageExpiryInterval: 5 } }
ExpiryOptions(qos, retain) ==
    [Options(qos, retain) EXCEPT !.props = TRUE, !.expiry = 5]

\* a Map without entries
EmptyMap == [x \in {} |-> 0]

\* what the broker retains on the presence topic
NoRetained == [status |-> "none", clientId |-> "", origin |-> "none"]

InitService(n, faults) ==
    [conn            |-> "connecting",
     everConnected   |-> FALSE,
     messageCount    |-> 0,
     messageQueue    |-> <<>>,
     processingQueue |-> FALSE,
     drainTimer      |-> NoTimer,
     acksPending     |-> 0,
     sent            |-> <<>>,     \* what was handed to client.publish

     closedAt        |-> -1,
     subs            |-> {},       \* topics subscribed at the broker
     requests        |-> <<>>,     \* one closure per request() call
     pingTimestamps  |-> EmptyMap,   \* correlation id -> Date.now() of the ping
     pings           |-> <<>>,     \* one timer per sendPing() call
     events          |-> <<>>,     \* the 'pong' and 'ping-timeout' events
     pingsHeard      |-> 0,        \* pings of other clients received
     interval        |-> NoTimer,  \* sensorDataInterval: its next tick
     intervals       |-> 0,        \* setInterval timers created, not cleared
     sockets         |-> 0,        \* io.sockets.sockets.size
     cleanup         |-> EmptyMap, \* retainedMessageCleanup: topic -> timer
     expiryTimers    |-> {},       \* the armed timers of simulateMessageExpiry
     timerSeq        |-> 0,        \* timers created so far
     broadcasts      |-> 0,        \* interval ticks so far
     exited          |-> FALSE,    \* process.exit() was called
     apiCalls        |-> 0,        \* GET /api/test-expiry calls so far
     commands        |-> <<>>,     \* the control messages handled, and what
                                   \* the server did for each
     pausedSeq       |-> -1,       \* nextSeq when the last pause was handled
                                   \* (-1: none since the last resume)
     rateSet         |-> [k |-> 0, at |-> 0, burst |-> 0],
                                   \* the last setRate command
     expiryLog       |-> <<>>,     \* publishes to the expiry topics
     connects        |-> <<>>,     \* the 'connect' events handled
     requestHandlers |-> <<>>,     \* the topic of every onRequest() call
     served          |-> <<>>,     \* the messages on such topics and what
                                   \* the listeners did for each
     drainRuns       |-> 0,        \* processMessageQueue runs in progress
     nextSeq         |-> 0,
     faults          |-> faults,   \* publishes the transport will yet reject
     drops           |-> 0,
     burst           |-> 0,    \* packets client.publish put on the wire
                               \* since the clock last advanced
     fixedRequests   |-> <<>>,     \* the closures of the earlier request()
     quiet           |-> RATE_WAIT_MS]
                               \* time since client.publish was last called,
                               \* as far as the rate window looks back

(* ------------------------- the transport handle ----------------------- *)
\* How client.publish() may complete: its callback runs inside the call or
\* later (QoS 0 on an open stream), later (QoS 1, on the acknowledgement,
\* or a packet stored while offline), or reports an error (always, once
\* end() was called).
CbModes(s, qos) ==
    IF s.conn = "closed" THEN {"err"}
    ELSE (IF s.conn = "connected" /\ qos = 0 THEN {"ok_sync", "ok_async"}
          ELSE {"ok_async"})
         \cup (IF s.faults > 0 THEN {"err"} ELSE {})

\* client.publish(topic, message, options, cb): the packet is on the wire
\* ("sent"), kept by the client until it is connected ("stored") or refused
\* ("rejected").  via tells who called: the drain loop or a direct caller.
TransportPublish(s, m, via, mode, t) ==
    LET wire == IF mode = "err" THEN "rejected"
                ELSE IF s.conn = "connected" THEN "sent" ELSE "stored"
    IN [s EXCEPT !.sent = Append(@, [msg |-> m, via |-> via, wire |-> wire]),
                 !.burst = IF wire = "sent" THEN @ + 1 ELSE @,
                 !.quiet = 0,
                 !.faults = IF mode = "err" /\ s.conn # "closed"
                            THEN @ - 1 ELSE @]

(* ---------------------- the flow-controlled queue --------------------- *)
\* publishOptions: the defaults for omitted options, and the message
\* expiry added when the options carry no properties.
PublishOptions(options) ==
    LET o == IF options.given THEN options ELSE Options(0, FALSE)
    IN IF ~o.props THEN [o EXCEPT !.props = TRUE, !.expiry = DEFAULT_EXPIRY_S]
       ELSE o

\* (a publish() that adds at the head of the queue, as unshift would)
EnqueueAtHead(q, m) == <<m>> \o q

\* the queue end publish() adds to
Enqueue(q, m) == Append(q, m)

\* (a loop body that puts a rejected message back at the end of the queue)
ShiftAndPublishRetry(s, mode, t) ==
    LET m  == Head(s.messageQueue)
        s1 == [s EXCEPT !.messageQueue = Tail(@)]
        s2 == TransportPublish(
                  s1, [m EXCEPT !.options = PublishOptions(m.options)],
                  "queue", mode, t)
    IN CASE mode = "ok_sync"  -> [s2 EXCEPT !.messageCount = @ + 1]
         [] mode = "ok_async" -> [s2 EXCEPT !.acksPending = @ + 1]
         [] OTHER             -> [s2 EXCEPT !.messageQueue = Append(@, m)]

\* One pass of the loop body after the rate check: shift, publish, and the
\* publish callback, which counts a success.
ShiftAndPublish(s, mode, t) ==
    LET m  == Head(s.messageQueue)
        s1 == [s EXCEPT !.messageQueue = Tail(@)]
        s2 == TransportPublish(
                  s1, [m EXCEPT !.options = PublishOptions(m.options)],
                  "queue", mode, t)
    IN CASE mode = "ok_sync"  -> [s2 EXCEPT !.messageCount = @ + 1]
         [] mode = "ok_async" -> [s2 EXCEPT !.acksPending = @ + 1]
         [] OTHER             -> s2

\* the QoS the next message of the queue is published with
NextQos(s) == PublishOptions(Head(s.messageQueue).options).qos

\* The while loop, run until the queue is empty or the loop awaits the
\* rate-limit timer: the set of states it may end in.
RECURSIVE DrainLoop(_, _)
DrainLoop(s, t) ==
    IF s.messageQueue = <<>>
    THEN {[s EXCEPT !.processingQueue = FALSE, !.drainRuns = @ - 1]}
    ELSE IF s.messageCount >= MAX_MESSAGES_PER_SECOND
         THEN {[s EXCEPT !.drainTimer = t + RATE_WAIT_MS]}
         ELSE UNION {DrainLoop(ShiftAndPublish(s, mode, t), t) :
                         mode \in CbModes(s, NextQos(s))}

\* processMessageQueue(); drainRuns counts the runs that have started and
\* not returned.
ProcessMessageQueue(s, t) ==
    DrainLoop([s EXCEPT !.processingQueue = TRUE, !.drainRuns = @ + 1], t)

\* (a continuation that returns after the wait with the queue as it is)
DrainResumeGivesUp(s, t) ==
    {[s EXCEPT !.drainTimer = NoTimer, !.messageCount = 0,
               !.processingQueue = FALSE, !.drainRuns = @ - 1]}

\* The loop's continuation after the awaited second.
DrainResume(s, t) ==
    LET s1 == [s EXCEPT !.drainTimer = NoTimer, !.messageCount = 0]
    IN UNION {DrainLoop(ShiftAndPublish(s1, mode, t), t) :
                  mode \in CbModes(s1, NextQos(s1))}

\* (a publish() that starts a drain loop whether or not one is running)
PublishAlwaysDrains(s, topic, payload, options, t) ==
    LET m  == [seq |-> s.nextSeq + 1, topic |-> topic, payload |-> payload,
               options |-> options, enqBusy |-> s.processingQueue]
        s1 == [s EXCEPT !.messageQueue = Enqueue(@, m), !.nextSeq = @ + 1]
    IN ProcessMessageQueue(s1, t)

\* publish(topic, message, options); seq and enqBusy record the call.
Publish(s, topic, payload, options, t) ==
    LET m  == [seq |-> s.nextSeq + 1, topic |-> topic, payload |-> payload,
               options |-> options, enqBusy |-> s.processingQueue]
        s1 == [s EXCEPT !.messageQueue = Enqueue(@, m), !.nextSeq = @ + 1]
    IN IF ~s1.processingQueue THEN ProcessMessageQueue(s1, t) ELSE {s1}

(* --------------------------- request/response ------------------------ *)
\* `${requestTopic}/response/${clientId}/${correlationData.toString('hex')}`
ResponseTopic(requestTopic, n, cd) ==
    [name |-> requestTopic.name, client |-> n, corr |-> cd]

\* (a promise whose last resolve or reject call decides it)
SettleLastWins(r, kind, by, t) ==
    [r EXCEPT !.calls = Append(@, [kind |-> kind, by |-> by]),
              !.promise = kind, !.settledAt = t]

\* resolve(...) or reject(...) of the promise request() returned: the first
\* call settles it, later calls change nothing.  calls records every call
\* and the inbound message that caused it.
Settle(r, kind, by, t) ==
    [r EXCEPT !.calls = Append(@, [kind |-> kind, by |-> by]),
              !.promise = IF @ = "pending" THEN kind ELSE @,
              !.settledAt = IF r.promise = "pending" THEN t ELSE @]

\* clearTimeout(timeoutId)
ClearTimeout(r) == [r EXCEPT !.timer = IF @ = "armed" THEN "cleared" ELSE @]

\* no inbound message: the cause of a call made by a timer or a callback
NoMessage ==
    [topic |-> NoTopic, payload |-> BasePayload(""), correlationData |-> NoCorr,
     responseTopic |-> NoTopic, json |-> TRUE, from |-> ""]

\* request(requestTopic, payload, timeout): the closure of one call, with
\* the deadline timer armed and the subscription to the response topic
\* requested.
NewRequest(n, requestTopic, cd, timeout, t) ==
    [topic           |-> requestTopic,
     correlationData |-> cd,
     responseTopic   |-> ResponseTopic(requestTopic, n, cd),
     timeout         |-> timeout,
     issuedAt        |-> t,
     timer           |-> "armed",
     sub             |-> "pending",
     revoked         |-> FALSE,
     listening       |-> FALSE,
     pubFailing      |-> FALSE,
     promise         |-> "pending",
     settledAt       |-> -1,
     calls           |-> <<>>,
     sawMismatch     |-> FALSE,
     sawMissing      |-> FALSE]

RequestCall(s, n, requestTopic, rand, timeout, t) ==
    [s EXCEPT !.requests =
        Append(@, NewRequest(n, requestTopic, <<t, rand>>, timeout, t))]

\* client.unsubscribe(topic).  The client sends its SUBSCRIBE and
\* UNSUBSCRIBE packets in the order of the calls, so the UNSUBSCRIBE also
\* releases a subscription to the topic that was asked for before it and is
\* still waiting for its acknowledgement (revoked).
Unsubscribe(s, topic) ==
    [s EXCEPT !.subs = @ \ {topic},
              !.requests =
                  [k \in DOMAIN s.requests |->
                      IF /\ s.requests[k].responseTopic = topic
                         /\ s.requests[k].sub = "pending"
                      THEN [s.requests[k] EXCEPT !.revoked = TRUE]
                      ELSE s.requests[k]]]

\* (a deadline callback that leaves the response topic subscribed)
RequestTimedOutKeepsTopic(s, i, t) ==
    [s EXCEPT !.requests[i] =
        Settle([s.requests[i] EXCEPT !.timer = "fired"], "timeout",
               NoMessage, t)]

\* The deadline timer of request i fires.
RequestTimedOut(s, i, t) ==
    LET s1 == Unsubscribe(s, s.requests[i].responseTopic)
        r  == s1.requests[i]
    IN [s1 EXCEPT !.requests[i] =
           Settle([r EXCEPT !.timer = "fired"], "timeout", NoMessage, t)]

\* (a response handler that does not compare the correlation data)
CorrelationMatchesAny(received, expected) == TRUE

\* receivedCorrelationData.equals(correlationData)
CorrelationMatches(received, expected) == received = expected

\* (a response handler that rejects the request when a response on its
\* topic carries other correlation data)
ResponseHandlerRejectsMismatch(s, i, m, t) ==
    LET r == s.requests[i]
    IN IF ~r.listening \/ m.topic # r.responseTopic THEN s
       ELSE IF m.correlationData = NoCorr
            THEN [s EXCEPT !.requests[i].sawMissing = TRUE]
       ELSE IF ~CorrelationMatches(m.correlationData, r.correlationData)
            THEN [Unsubscribe(s, r.responseTopic) EXCEPT !.requests[i] =
                     Settle([ClearTimeout(r) EXCEPT !.listening = FALSE,
                                                    !.sawMismatch = TRUE],
                            "mismatch", m, t)]
       ELSE [Unsubscribe(s, r.responseTopic) EXCEPT !.requests[i] =
                Settle([ClearTimeout(r) EXCEPT !.listening = FALSE],
                       IF m.json THEN "resolved" ELSE "invalid-json", m, t)]

\* responseHandler of request i for the inbound message m.
ResponseHandler(s, i, m, t) ==
    LET r == s.requests[i]
    IN IF ~r.listening \/ m.topic # r.responseTopic THEN s
       ELSE IF m.correlationData = NoCorr
            THEN [s EXCEPT !.requests[i].sawMissing = TRUE]
       ELSE IF ~CorrelationMatches(m.correlationData, r.correlationData)
            THEN [s EXCEPT !.requests[i].sawMismatch = TRUE]
       ELSE [Unsubscribe(s, r.responseTopic) EXCEPT !.requests[i] =
                Settle([ClearTimeout(r) EXCEPT !.listening = FALSE],
                       IF m.json THEN "resolved" ELSE "invalid-json", m, t)]

\* All response handlers registered on the client, in registration order.
RECURSIVE ResponseHandlers(_, _, _, _)
ResponseHandlers(s, i, m, t) ==
    IF i > Len(s.requests) THEN s
    ELSE ResponseHandlers(ResponseHandler(s, i, m, t), i + 1, m, t)

\* The callback of client.subscribe(responseTopic) for request i: an error
\* rejects; otherwise the handler is registered and the request is
\* published by the client directly, with the two MQTT 5 properties.
\* A subscription that an unsubscribe() released before its acknowledgement
\* arrived (revoked) is not held afterwards.
SubscribeCallback(s, i, err, mode, t) ==
    LET r == s.requests[i]
    IN IF err
       THEN [s EXCEPT !.requests[i] =
                Settle([ClearTimeout(r) EXCEPT !.sub = "err"],
                       "subscribe-error", NoMessage, t)]
       ELSE LET m  == [seq |-> 0, topic |-> r.topic,
                       payload |-> BasePayload("request"),
                       options |-> RequestOptions(r.responseTopic,
                                                  r.correlationData),
                       enqBusy |-> FALSE]
                s1 == [s EXCEPT !.subs = IF r.revoked THEN @
                                         ELSE @ \cup {r.responseTopic},
                                !.requests[i].sub = "ok",
                                !.requests[i].listening = TRUE,
                                !.requests[i].pubFailing = (mode = "err")]
            IN TransportPublish(s1, m, "direct", mode, t)

\* The callback of that publish reports an error.
RequestPublishFailed(s, i, t) ==
    LET r == s.requests[i]
    IN [Unsubscribe(s, r.responseTopic) EXCEPT
                 !.requests[i] =
                     Settle([ClearTimeout(r) EXCEPT !.listening = FALSE,
                                                    !.pubFailing = FALSE],
                            "publish-error", NoMessage, t)]

(* ---------------- request() with a caller-given response topic -------- *)
\* The earlier version of the class: request(requestTopic, responseTopic,
\* payload, timeout) carries the correlation id in the payload and takes
\* the response topic from the caller.  Its publish queue is the one
\* above.

\* { ...payload, correlationId }
FixedRequestPayload(id) ==
    [BasePayload("request") EXCEPT !.correlationId = id]

\* { qos: 1, properties: { responseTopic, correlationData,
\*   messageExpiryInterval: 30 } }
FixedRequestOptions(rt, id) ==
    [RequestOptions(rt, id) EXCEPT !.expiry = 30]

\* The call: the deadline timer is armed, the response topic subscribed,
\* the listener registered and the request passed to publish().
FixedRequestCall(s, requestTopic, responseTopic, rand, timeout, t) ==
    LET id == <<t, rand>>
        r  == [correlationId |-> id,
               responseTopic |-> responseTopic,
               timeout       |-> timeout,
               issuedAt      |-> t,
               timer         |-> "armed",
               listening     |-> TRUE,
               promise       |-> "pending",
               settledAt     |-> -1,
               calls         |-> <<>>]
        s1 == [s EXCEPT !.subs = @ \cup {responseTopic},
                        !.fixedRequests = Append(@, r)]
    IN Publish(s1, requestTopic, FixedRequestPayload(id),
               FixedRequestOptions(responseTopic, id), t)

\* The deadline timer of request i fires.
FixedTimedOut(s, i, t) ==
    LET r  == s.fixedRequests[i]
        s1 == Unsubscribe(s, r.responseTopic)
    IN [s1 EXCEPT !.fixedRequests[i] =
           Settle([r EXCEPT !.timer = "fired"], "timeout", NoMessage, t)]

\* messageHandler of request i for the inbound message m, on any topic.
FixedMessageHandler(s, i, m, t) ==
    LET r == s.fixedRequests[i]
    IN IF r.listening /\ m.json /\ m.payload.correlationId = r.correlationId
       THEN [Unsubscribe(s, r.responseTopic) EXCEPT !.fixedRequests[i] =
                Settle([ClearTimeout(r) EXCEPT !.listening = FALSE],
                       "resolved", m, t)]
       ELSE s

\* All such listeners registered on the client, in registration order.
RECURSIVE FixedMessageHandlers(_, _, _, _)
FixedMessageHandlers(s, i, m, t) ==
    IF i > Len(s.fixedRequests) THEN s
    ELSE FixedMessageHandlers(FixedMessageHandler(s, i, m, t), i + 1, m, t)

\* What a responder may publish to the response topic: the response to one
\* of the requests or to somebody else's, as JSON or not.
FixedResponses(s) ==
    {[NoMessage EXCEPT !.topic = FIXED_RESPONSE_TOPIC,
                       !.payload = [BasePayload("result") EXCEPT
                                       !.correlationId = id],
                       !.json = json, !.from = "X"] :
        id \in {s.fixedRequests[i].correlationId :
                   i \in 1..Len(s.fixedRequests)} \cup {OtherCorr},
        json \in BOOLEAN}

(* ------------------------------ ping/pong ----------------------------- *)
\* Map.set(key, value) and Map.delete(key)
MapSet(f, k, v) == [x \in DOMAIN f \cup {k} |-> IF x = k THEN v ELSE f[x]]
MapDelete(f, k) == [x \in DOMAIN f \ {k} |-> f[x]]

\* sendPing(): the id is `ping-${Date.now()}-${Math.floor(Math.random()*1000)}`;
\* the ping goes through publish() and a timer is armed that nothing clears.
\* reused records whether the id was a key of pingTimestamps already.
SendPingCall(s, n, rand, t) ==
    LET correlationId == <<t, rand>>
        s1 == [s EXCEPT !.pingTimestamps = MapSet(@, correlationId, t)]
    IN {[s2 EXCEPT !.pings = Append(@, [id     |-> correlationId,
                                        due    |-> t + PING_TIMEOUT_MS,
                                        timer  |-> "armed",
                                        reused |-> correlationId \in
                                                     DOMAIN s.pingTimestamps])] :
           s2 \in Publish(s1, PING_TOPIC, PingPayload(n, correlationId, t),
                          Options(1, FALSE), t)}

\* An event the service emits; id, from and pending record the correlation
\* id it is about, the client that published its cause and whether the id
\* was a key of pingTimestamps when the handler ran.
Event(kind, id, from, responderId, latency, pending) ==
    [kind |-> kind, id |-> id, from |-> from, responderId |-> responderId,
     latency |-> latency, pending |-> pending]

\* (a timer callback that leaves the pending entry)
PingTimerIdle(s, i, t) == [s EXCEPT !.pings[i].timer = "fired"]

\* The callback of the timer of the i-th sendPing().
PingTimedOut(s, i, t) ==
    LET correlationId == s.pings[i].id
        s1 == [s EXCEPT !.pings[i].timer = "fired"]
    IN IF correlationId \in DOMAIN s.pingTimestamps
       THEN [s1 EXCEPT !.pingTimestamps = MapDelete(@, correlationId),
                       !.events = Append(@, Event("ping-timeout", correlationId,
                                                  "", "", -1, TRUE))]
       ELSE s1

\* (a pong handler that accepts a stored correlation id from any original
\* sender)
PongHandlerAnySender(s, n, m, t) ==
    LET data == m.payload
    IN IF /\ m.topic = PONG_TOPIC
          /\ m.json
          /\ data.correlationId # NoCorr
          /\ data.correlationId \in DOMAIN s.pingTimestamps
       THEN [s EXCEPT
                !.events = Append(@,
                    Event("pong", data.correlationId, m.from, data.responderId,
                          t - s.pingTimestamps[data.correlationId],
                          data.correlationId \in DOMAIN s.pingTimestamps)),
                !.pingTimestamps = MapDelete(@, data.correlationId)]
       ELSE s

\* if (topic === 'weather/pong'): a pong is processed when it names a stored
\* correlation id and this client as the original sender.
PongHandler(s, n, m, t) ==
    LET data == m.payload
    IN IF /\ m.topic = PONG_TOPIC
          /\ m.json
          /\ data.correlationId # NoCorr
          /\ data.correlationId \in DOMAIN s.pingTimestamps
          /\ data.originalSender = n
       THEN [s EXCEPT
                !.events = Append(@,
                    Event("pong", data.correlationId, m.from, data.responderId,
                          t - s.pingTimestamps[data.correlationId],
                          data.correlationId \in DOMAIN s.pingTimestamps)),
                !.pingTimestamps = MapDelete(@, data.correlationId)]
       ELSE s

\* (a responder that answers every ping, its own included)
IsFromAnyone(n, clientId) == TRUE

\* data.clientId !== this.client.options.clientId
IsFromOther(n, clientId) == clientId # n

\* if (topic === 'weather/ping'): a ping of another client is answered with
\* a pong through publish().
PingHandler(s, n, m, t) ==
    IF m.topic = PING_TOPIC /\ m.json /\ IsFromOther(n, m.payload.clientId)
    THEN Publish(s, PONG_TOPIC, PongPayload(n, m.payload, t),
                 Options(1, FALSE), t)
    ELSE {s}

\* Counts the parseable pings received whose clientId is not this client's.
HearPing(s, n, m) ==
    IF m.topic = PING_TOPIC /\ m.json /\ m.payload.clientId # n
    THEN [s EXCEPT !.pingsHeard = @ + 1]
    ELSE s

\* The 'message' listener setupListeners() registers.
MessageHandler(s, n, m, t) ==
    PingHandler(PongHandler(HearPing(s, n, m), n, m, t), n, m, t)

(* ------------------------------ onRequest ----------------------------- *)
\* onRequest(requestTopic, handler): subscribe, then register one more
\* 'message' listener for the topic.
OnRequest(s, requestTopic) ==
    [s EXCEPT !.subs = @ \cup {requestTopic},
              !.requestHandlers = Append(@, requestTopic)]

\* (a check that asks for the response topic only)
HasResponseTopic(m) == m.responseTopic # NoTopic

\* if (responseTopic && correlationData)
IsConforming(m) == m.responseTopic # NoTopic /\ m.correlationData # NoCorr

\* { qos: 1, properties: { correlationData } }
ResponseOptions(cd) ==
    [Options(1, FALSE) EXCEPT !.props = TRUE, !.correlationData = cd]

\* The message a request handler publishes for the request m: the
\* handler's result or the error payload, to the request's response topic
\* with the request's correlation data.
Response(m, kind) ==
    [seq |-> 0, topic |-> m.responseTopic, payload |-> BasePayload(kind),
     options |-> ResponseOptions(m.correlationData), enqBusy |-> FALSE]

\* (a catch block that only logs)
SwallowError(s, m, mode, t) == s

\* catch (error): the error response, published by the client directly.
ErrorResponse(s, m, mode, t) ==
    TransportPublish(s, Response(m, "error"), "direct", mode, t)

\* await handler(request, responseTopic, correlationData): served counts
\* the call, and the calls that threw or rejected.  (The server's handler
\* awaits nothing, so it completes within the step.)
Invoke(s, outcome) ==
    [s EXCEPT !.served[Len(s.served)].invoked = @ + 1,
              !.served[Len(s.served)].failed =
                  IF outcome = "throws" THEN @ + 1 ELSE @]

\* requestHandler of one onRequest(requestTopic) call for the message m;
\* outcome tells whether the handler returns or fails.
RequestHandler(s, requestTopic, m, outcome, mode, t) ==
    IF m.topic # requestTopic \/ ~IsConforming(m) THEN s
    ELSE IF ~m.json THEN ErrorResponse(s, m, mode, t)
    ELSE IF outcome = "throws"
         THEN ErrorResponse(Invoke(s, outcome), m, mode, t)
    ELSE TransportPublish(Invoke(s, outcome), Response(m, "result"),
                          "direct", mode, t)

\* All request handlers registered on the client, in registration order:
\* the states they may leave.
RECURSIVE RequestHandlers(_, _, _, _)
RequestHandlers(s, i, m, t) ==
    IF i > Len(s.requestHandlers) THEN {s}
    ELSE UNION {RequestHandlers(
                    RequestHandler(s, s.requestHandlers[i], m, outcome, mode, t),
                    i + 1, m, t) :
                  outcome \in {"returns", "throws"}, mode \in CbModes(s, 1)}

HandlerTopics(s) == {s.requestHandlers[i] : i \in 1..Len(s.requestHandlers)}

\* Before and after the listeners run for a message on a topic with a
\* request handler: served records the message, the handler calls, and
\* what was handed to the transport (first, count) and to publish()
\* (enqueued) while the listeners ran.
BeginServe(s, m) ==
    IF m.topic \in HandlerTopics(s)
    THEN [s EXCEPT !.served = Append(@, [m        |-> m,
                                         invoked  |-> 0,
                                         failed   |-> 0,
                                         handlers |-> Len(s.requestHandlers),
                                         first    |-> Len(s.sent) + 1,
                                         count    |-> 0,
                                         enqueued |-> 0 - s.nextSeq])]
    ELSE s

EndServe(s, m) ==
    IF m.topic \in HandlerTopics(s)
    THEN [s EXCEPT !.served[Len(s.served)].count =
                       Len(s.sent) + 1 - s.served[Len(s.served)].first,
                   !.served[Len(s.served)].enqueued = @ + s.nextSeq]
    ELSE s

\* client.on('message') of service n: every registered listener runs: the
\* one of setupListeners(), the request handlers, the response handlers.
OnMessage(s, n, m, t) ==
    {EndServe(ResponseHandlers(s2, 1, m, t), m) :
        s2 \in UNION {RequestHandlers(s1, 1, m, t) :
                         s1 \in MessageHandler(BeginServe(s, m), n, m, t)}}

\* the response topic of a request of the client "X"
ReplyTopic == [name |-> REQUEST_TOPIC.name, client |-> "X", corr |-> OtherCorr]

\* What clients outside the model may publish to the topics of service n:
\* on the response topic of a request, a message with the request's
\* correlation data, with other correlation data or with none, parseable or
\* not; a control message; the pong of another client "X" for any ping
\* this service has sent, naming any service as the original sender; and
\* on a topic with a request handler, a message with or without a response
\* topic and correlation data, parseable or not.
EnvMessages(s) ==
    UNION {{[NoMessage EXCEPT !.topic = topic,
                              !.payload = BasePayload("request"),
                              !.responseTopic = rt,
                              !.correlationData = cd, !.json = j,
                              !.from = "X"] :
               rt \in {NoTopic, ReplyTopic}, cd \in {NoCorr, OtherCorr},
               j \in BOOLEAN} :
           topic \in HandlerTopics(s) \cap s.subs}
    \cup
    UNION {{[NoMessage EXCEPT !.topic = s.requests[i].responseTopic,
                              !.payload = BasePayload("response"),
                              !.correlationData = cd, !.json = j,
                              !.from = "X"] :
               cd \in {s.requests[i].correlationData, OtherCorr, NoCorr},
               j \in BOOLEAN} :
           i \in {k \in 1..Len(s.requests) : s.requests[k].sub = "ok"}}
    \cup (IF CONTROL_TOPIC \in s.subs
          THEN {[NoMessage EXCEPT !.topic = CONTROL_TOPIC,
                                  !.payload = BasePayload("control"),
                                  !.from = "X"]}
          ELSE {})
    \cup (IF PONG_TOPIC \in s.subs
          THEN {[NoMessage EXCEPT
                    !.topic = PONG_TOPIC,
                    !.payload = [BasePayload("pong") EXCEPT
                                    !.responderId = "X",
                                    !.originalSender = o,
                                    !.correlationId = s.pings[i].id,
                                    !.originalTimestamp = s.pings[i].id[1]],
                    !.from = "X"] :
                 i \in 1..Len(s.pings), o \in Node}
          ELSE {})

\* A packet a service put on the wire, as a subscriber receives it.
Inbound(e, from) ==
    [NoMessage EXCEPT !.topic = e.msg.topic, !.payload = e.msg.payload,
                      !.correlationData = e.msg.options.correlationData,
                      !.responseTopic = e.msg.options.responseTopic,
                      !.from = from]

(* ------------------------------ the broker ---------------------------- *)
\* The packets of new.sent that reached the broker in this step.
NewOnWire(old, new) ==
    {i \in 1..Len(new.sent) :
        /\ new.sent[i].wire = "sent"
        /\ (i > Len(old.sent) \/ old.sent[i].wire # "sent")}

Max(S) == CHOOSE x \in S : \A y \in S : y <= x

\* The retained presence value after the broker received those packets.
BrokerRetain(r, old, new) ==
    LET R == {i \in NewOnWire(old, new) :
                 /\ new.sent[i].msg.topic = STATUS_TOPIC
                 /\ new.sent[i].msg.options.retain}
    IN IF R = {} THEN r
       ELSE [status   |-> new.sent[Max(R)].msg.payload.status,
             clientId |-> new.sent[Max(R)].msg.payload.clientId,
             origin   |-> "client"]

\* Service n moves to state s2; the broker sees what it put on the wire.
Step(n, s2) ==
    /\ svc' = [svc EXCEPT ![n] = s2]
    /\ retained' = BrokerRetain(retained, svc[n], s2)

(* ------------------------- connection life cycle ---------------------- *)
\* The client's stored packets go out when the connection is up.
Flush(sent) ==
    [i \in 1..Len(sent) |->
        IF sent[i].wire = "stored" THEN [sent[i] EXCEPT !.wire = "sent"]
        ELSE sent[i]]

\* (a connect listener that subscribes and announces nothing)
OnConnectSilent(s, n, t) ==
    {[s EXCEPT !.conn = "connected", !.everConnected = TRUE,
               !.sent = Flush(@),
               !.subs = @ \cup {CONTROL_TOPIC, PONG_TOPIC, PING_TOPIC}]}

\* client.on('connect'): announce Online (retained), then subscribe.
OnConnect(s, n, t) ==
    LET s1 == [s EXCEPT !.conn = "connected", !.everConnected = TRUE,
                        !.sent = Flush(@)]
    IN {[s2 EXCEPT !.subs = @ \cup {CONTROL_TOPIC, PONG_TOPIC, PING_TOPIC}] :
           s2 \in Publish(s1, STATUS_TOPIC, StatusPayload("online", n, t),
                          Options(1, TRUE), t)}

\* The server's listener of the service's 'connect' event, registered
\* after the service's own: subscribe to the data topics and the control
\* channel, and register the request handler, on every connect.
ServerOnConnect(s) ==
    OnRequest([s EXCEPT !.subs = @ \cup {DATA_TOPIC, HUMIDITY_TOPIC,
                                         PRESSURE_TOPIC, ALL_TOPIC,
                                         CONTROL_TOPIC}],
              REQUEST_TOPIC)

(* ------------------------------ the server ---------------------------- *)
\* mqttService.publish() as the server calls it; expiryLog records the
\* publishes to the expiry topics and whether they clear the topic.
ServerPublish(s, topic, payload, options, t) ==
    {[s2 EXCEPT !.expiryLog =
          IF topic \in ExpiryTopics
          THEN Append(@, [topic |-> topic, clear |-> payload = EmptyPayload,
                          at |-> t, seq |-> s.nextSeq + 1])
          ELSE @] :
        s2 \in Publish(s, topic, payload, options, t)}

\* (a simulateMessageExpiry that keeps the timer a topic already has)
SimulateMessageExpiryKeepFirst(s, topic, t) ==
    IF topic \in DOMAIN s.cleanup THEN s
    ELSE [s EXCEPT !.expiryTimers = @ \cup {[id |-> s.timerSeq + 1,
                                             topic |-> topic,
                                             due |-> t + EXPIRY_MS]},
                   !.cleanup = MapSet(@, topic, s.timerSeq + 1),
                   !.timerSeq = @ + 1]

\* (a simulateMessageExpiry that arms without cancelling)
SimulateMessageExpiryNoClear(s, topic, t) ==
    [s EXCEPT !.expiryTimers = @ \cup {[id |-> s.timerSeq + 1, topic |-> topic,
                                        due |-> t + EXPIRY_MS]},
              !.cleanup = MapSet(@, topic, s.timerSeq + 1),
              !.timerSeq = @ + 1]

\* simulateMessageExpiry(topic): clearTimeout of the timer the map holds
\* for the topic, setTimeout(5000), and the map entry set to the new timer.
SimulateMessageExpiry(s, topic, t) ==
    LET existing == IF topic \in DOMAIN s.cleanup THEN {s.cleanup[topic]}
                    ELSE {}
    IN [s EXCEPT !.expiryTimers =
                     {x \in @ : x.id \notin existing}
                     \cup {[id |-> s.timerSeq + 1, topic |-> topic,
                            due |-> t + EXPIRY_MS]},
                 !.cleanup = MapSet(@, topic, s.timerSeq + 1),
                 !.timerSeq = @ + 1]

\* The callback of a simulateMessageExpiry timer x: publish the empty
\* retained payload, delete the topic's map entry.
ExpiryCallback(s, x, t) ==
    {[s2 EXCEPT !.cleanup = MapDelete(@, x.topic),
                !.expiryTimers = @ \ {x}] :
        s2 \in ServerPublish(s, x.topic, EmptyPayload, Options(1, TRUE), t)}

\* (a startDataBroadcast() that sets an interval whether or not one runs)
StartDataBroadcastAgain(s, t) ==
    [s EXCEPT !.interval = t + BROADCAST_MS, !.intervals = @ + 1]

\* startDataBroadcast(): if (!sensorDataInterval) setInterval(..., 1000)
StartDataBroadcast(s, t) ==
    IF s.interval = NoTimer
    THEN [s EXCEPT !.interval = t + BROADCAST_MS, !.intervals = @ + 1]
    ELSE s

\* if (sensorDataInterval) { clearInterval(sensorDataInterval);
\* sensorDataInterval = null }: the timer the variable holds is cleared.
StopDataBroadcast(s) ==
    IF s.interval # NoTimer
    THEN [s EXCEPT !.interval = NoTimer, !.intervals = @ - 1]
    ELSE s

\* One tick of sensorDataInterval: the four publishes and the two
\* simulateMessageExpiry calls, in the order of the code.
IntervalCallback(s, t) ==
    LET S1 == ServerPublish(s, DATA_TOPIC, SensorPayload(t),
                            Options(0, FALSE), t)
        S2 == UNION {ServerPublish(x, HUMIDITY_TOPIC, SensorPayload(t),
                                   ExpiryOptions(1, TRUE), t) : x \in S1}
        S3 == {SimulateMessageExpiry(x, HUMIDITY_TOPIC, t) : x \in S2}
        S4 == UNION {ServerPublish(x, PRESSURE_TOPIC, SensorPayload(t),
                                   ExpiryOptions(2, TRUE), t) : x \in S3}
        S5 == {SimulateMessageExpiry(x, PRESSURE_TOPIC, t) : x \in S4}
    IN UNION {ServerPublish(x, ALL_TOPIC, SensorPayload(t),
                            ExpiryOptions(1, FALSE), t) : x \in S5}

\* (a resume test that takes every action other than pause)
IsResumeOrUnknown(action) == action # "pause"

\* else if (data.action === 'resume')
IsResume(action) == action = "resume"

\* case 'weather/control' of the server's 'message' listener.
ControlCase(s, data, t) ==
    IF data.action = "pause"
    THEN IF s.interval # NoTimer
         THEN ServerPublish(StopDataBroadcast(s), ACK_TOPIC,
                            AckPayload("paused", t), Options(1, FALSE), t)
         ELSE {s}
    ELSE IF IsResume(data.action)
    THEN ServerPublish(StartDataBroadcast(s, t), ACK_TOPIC,
                       AckPayload("resumed", t), Options(1, FALSE), t)
    ELSE {s}

\* What the queue holds and what the client was handed for topic.
OnTopic(s, topic) ==
    Len(SelectSeq(s.messageQueue, LAMBDA q : q.topic = topic))
    + Len(SelectSeq(s.sent, LAMBDA e : e.msg.topic = topic))

\* After a control message: commands records the command, whether the
\* interval ran before and after it, how many acknowledgments were
\* published on its behalf, and whether anything changed at all;
\* pausedSeq keeps the last pause of a running broadcast, rateSet the last
\* setRate, with the time and what had been handed to the transport in
\* that millisecond.
Commanded(s, s2, data, t) ==
    [s2 EXCEPT
        !.commands = Append(@, [action  |-> data.action,
                                ran     |-> s.interval # NoTimer,
                                runs    |-> s2.interval # NoTimer,
                                acks    |-> OnTopic(s2, ACK_TOPIC)
                                            - OnTopic(s, ACK_TOPIC),
                                changed |-> s2 # s]),
        !.pausedSeq = IF data.action = "pause" /\ s.interval # NoTimer
                      THEN s2.nextSeq
                      ELSE IF data.action = "resume" THEN -1 ELSE @,
        !.rateSet = IF data.action = "setRate"
                    THEN [k |-> data.messagesPerSecond, at |-> t,
                          burst |-> s2.burst]
                    ELSE @]

\* mqttClient.on('message') of the server: JSON.parse, then the switch on
\* the topic; 'weather/all' only feeds the dashboards, a payload that does
\* not parse is caught and logged.
ServerMessageHandler(s, m, t) ==
    IF m.json /\ m.topic = CONTROL_TOPIC
    THEN {Commanded(s, s2, m.payload, t) :
             s2 \in ControlCase(s, m.payload, t)}
    ELSE {s}

\* client.on('message') at the server: the listeners of the service and
\* the server's own.  (The request handlers are registered after the
\* server's listener; they act on other topics.)
ServerOnMessage(s, n, m, t) ==
    UNION {ServerMessageHandler(s1, m, t) : s1 \in OnMessage(s, n, m, t)}

\* the retained Online announcement of client n
IsOnline(m, n) ==
    /\ m.topic = STATUS_TOPIC
    /\ m.payload.status = "online"
    /\ m.payload.clientId = n
    /\ m.options.retain

\* After the 'connect' listener took s to s2, connects records what it
\* did: whether the last publish() call is the Online announcement made by
\* this listener, whether the drain loop had handed it to the transport
\* when the listener subscribed, whether the three channels are subscribed,
\* and whether the drain loop was idle and below the rate limit before.
Connected(s, s2, n) ==
    LET made == {m \in {s2.messageQueue[i] : i \in 1..Len(s2.messageQueue)}
                         \cup {s2.sent[i].msg : i \in 1..Len(s2.sent)} :
                    m.seq = s.nextSeq + 1 /\ IsOnline(m, n)}
    IN [s2 EXCEPT !.connects = Append(@,
           [online     |-> s2.nextSeq = s.nextSeq + 1 /\ made # {},
            handed     |-> \E i \in (Len(s.sent) + 1)..Len(s2.sent) :
                               /\ s2.sent[i].via = "queue"
                               /\ s2.sent[i].msg.seq = s.nextSeq + 1
                               /\ IsOnline(s2.sent[i].msg, n),
            subscribed |-> {CONTROL_TOPIC, PONG_TOPIC, PING_TOPIC}
                               \subseteq s2.subs,
            idle       |-> /\ ~s.processingQueue
                           /\ s.messageCount < MAX_MESSAGES_PER_SECOND,
            again      |-> s.everConnected])]

\* disconnect(): announce Offline through publish(), then client.end().
DisconnectService(s, n, t) ==
    {[s2 EXCEPT !.conn = "closed", !.closedAt = Len(s2.sent)] :
        s2 \in Publish(s, STATUS_TOPIC, StatusPayload("offline", n, t),
                       Options(1, TRUE), t)}

\* The last will registered by the constructor, as the broker publishes it.
LastWill(n) == [status |-> "offline", clientId |-> n, origin |-> "will"]

\* gracefulShutdown(): clear the interval and the timers of the map, clear
\* the map, disconnect, exit.
GracefulShutdown(s, n, t) ==
    LET held == {s.cleanup[topic] : topic \in DOMAIN s.cleanup}
        s1 == [StopDataBroadcast(s) EXCEPT
                        !.expiryTimers = {x \in @ : x.id \notin held},
                        !.cleanup = EmptyMap]
    IN {[s2 EXCEPT !.exited = TRUE] : s2 \in DisconnectService(s1, n, t)}

(* ------------------------------ actions ------------------------------- *)
\* The services as constructed: connecting, nothing published.
InitWith(faults) ==
    /\ svc = [n \in Node |-> InitService(n, faults)]
    /\ retained = NoRetained
    /\ now = 0

Init == InitWith(MaxErrors)

\* ... on a transport that rejects no publish before end()
InitReliable == InitWith(0)

Connect(n) ==
    /\ svc[n].conn = "connecting"
    /\ svc[n].nextSeq < MaxPublishes
    /\ \E s2 \in OnConnect(svc[n], n, now) :
           Step(n, Connected(svc[n], s2, n))
    /\ UNCHANGED now

\* 'connect' at the server: the service's listener, then the server's.
ServerConnect(n) ==
    /\ svc[n].conn = "connecting"
    /\ svc[n].nextSeq < MaxPublishes
    /\ \E s2 \in OnConnect(svc[n], n, now) :
           Step(n, ServerOnConnect(Connected(svc[n], s2, n)))
    /\ UNCHANGED now

\* io.on('connection'): startDataBroadcast().
SocketConnect(n) ==
    /\ ~svc[n].exited
    /\ svc[n].sockets < MaxSockets
    /\ Step(n, StartDataBroadcast([svc[n] EXCEPT !.sockets = @ + 1], now))
    /\ UNCHANGED now

\* socket.on('disconnect'): the last socket to leave stops the broadcast.
SocketDisconnect(n) ==
    /\ ~svc[n].exited
    /\ svc[n].sockets > 0
    /\ LET s1 == [svc[n] EXCEPT !.sockets = @ - 1]
       IN Step(n, IF s1.sockets = 0 /\ s1.interval # NoTimer
                  THEN StopDataBroadcast(s1) ELSE s1)
    /\ UNCHANGED now

\* sensorDataInterval ticks.
Broadcast(n) ==
    /\ ~svc[n].exited
    /\ svc[n].interval = now
    /\ svc[n].broadcasts < MaxBroadcasts
    /\ \E s2 \in IntervalCallback(svc[n], now) :
           Step(n, [s2 EXCEPT !.interval = now + BROADCAST_MS,
                              !.broadcasts = @ + 1])
    /\ UNCHANGED now

\* A timer of simulateMessageExpiry fires.
ExpiryTimeout(n) ==
    /\ ~svc[n].exited
    /\ \E x \in svc[n].expiryTimers :
           /\ x.due = now
           /\ \E s2 \in ExpiryCallback(svc[n], x, now) : Step(n, s2)
    /\ UNCHANGED now

\* Another client publishes a command on the control channel.
Control(n) ==
    /\ ~svc[n].exited
    /\ svc[n].conn = "connected"
    /\ CONTROL_TOPIC \in svc[n].subs
    /\ Len(svc[n].commands) < MaxCommands
    /\ \E action \in ControlActions :
           \E s2 \in ServerOnMessage(
                         svc[n], n,
                         [NoMessage EXCEPT
                             !.topic = CONTROL_TOPIC,
                             !.payload = ControlPayload(action, SetRateArg),
                             !.from = "X"],
                         now) :
               Step(n, s2)
    /\ UNCHANGED now

\* GET /api/test-expiry: a retained publish with a message expiry.
ApiPublish(n) ==
    /\ ~svc[n].exited
    /\ svc[n].apiCalls < MaxApiCalls
    /\ \E s2 \in ServerPublish(svc[n], TEST_EXPIRY_TOPIC, SensorPayload(now),
                                ExpiryOptions(1, TRUE), now) :
           Step(n, [s2 EXCEPT !.apiCalls = @ + 1])
    /\ UNCHANGED now

\* SIGINT or SIGTERM.
Shutdown(n) ==
    /\ ~svc[n].exited
    /\ \E s2 \in GracefulShutdown(svc[n], n, now) : Step(n, s2)
    /\ UNCHANGED now

\* The connection drops without a DISCONNECT: the broker publishes the will
\* and the client starts to reconnect.
Drop(n) ==
    /\ svc[n].conn = "connected"
    /\ svc[n].drops < MaxDrops
    /\ svc' = [svc EXCEPT ![n].conn = "connecting", ![n].drops = @ + 1]
    /\ retained' = LastWill(n)
    /\ UNCHANGED now

Disconnect(n) ==
    /\ svc[n].conn # "closed"
    /\ svc[n].nextSeq < MaxPublishes
    /\ \E s2 \in DisconnectService(svc[n], n, now) : Step(n, s2)
    /\ UNCHANGED now

\* A caller of publish(): the application's broadcast of a reading, with
\* { qos: 0, retain: false }.
AppPublish(n) ==
    /\ svc[n].nextSeq < MaxPublishes
    /\ \E s2 \in Publish(svc[n], DATA_TOPIC, DataPayload, Options(0, FALSE), now) :
           Step(n, s2)
    /\ UNCHANGED now

\* A caller of publish() with any of the options explored.
PublishWith(n) ==
    /\ svc[n].nextSeq < MaxOptionPublishes
    /\ \E options \in CallerOptions :
           \E s2 \in Publish(svc[n], DATA_TOPIC, DataPayload, options, now) :
               Step(n, s2)
    /\ UNCHANGED now

\* A deferred publish callback reports success: messageCount++.
PublishCallback(n) ==
    /\ svc[n].acksPending > 0
    /\ svc' = [svc EXCEPT ![n].acksPending = @ - 1, ![n].messageCount = @ + 1]
    /\ UNCHANGED <<retained, now>>

\* The awaited rate-limit timer fires.
DrainTimer(n) ==
    /\ svc[n].drainTimer # NoTimer
    /\ now >= svc[n].drainTimer
    /\ \E s2 \in DrainResume(svc[n], now) : Step(n, s2)
    /\ UNCHANGED now

\* A caller of request().
Request(n) ==
    /\ Len(svc[n].requests) < MaxRequests
    /\ \E rand \in 1..MaxRand, timeout \in RequestTimeouts :
           Step(n, RequestCall(svc[n], n, REQUEST_TOPIC, rand, timeout, now))
    /\ UNCHANGED now

\* The broker answers a subscribe to a response topic, or the subscribe
\* fails.
SubscribeDone(n) ==
    /\ \E i \in 1..Len(svc[n].requests), err \in BOOLEAN :
           /\ svc[n].requests[i].sub = "pending"
           /\ \E mode \in CbModes(svc[n], 1) :
                  Step(n, SubscribeCallback(svc[n], i, err, mode, now))
    /\ UNCHANGED now

RequestPublishError(n) ==
    /\ \E i \in 1..Len(svc[n].requests) :
           /\ svc[n].requests[i].pubFailing
           /\ Step(n, RequestPublishFailed(svc[n], i, now))
    /\ UNCHANGED now

RequestTimeout(n) ==
    /\ \E i \in 1..Len(svc[n].requests) :
           /\ svc[n].requests[i].timer = "armed"
           /\ now >= svc[n].requests[i].issuedAt + svc[n].requests[i].timeout
           /\ Step(n, RequestTimedOut(svc[n], i, now))
    /\ UNCHANGED now

\* An inbound message reaches the client of service n.
Deliver(n) ==
    /\ \E m \in EnvMessages(svc[n]) :
           \E s2 \in OnMessage(svc[n], n, m, now) :
               /\ Len(s2.served) <= MaxServed
               /\ Step(n, s2)
    /\ UNCHANGED now

\* The packets the broker forwards to service n: what the services put on
\* the wire on a topic n is subscribed to (its own packets included), a
\* packet possibly more than once.
WireMessages(n) ==
    UNION {{Inbound(svc[src].sent[i], src) :
               i \in {k \in 1..Len(svc[src].sent) :
                          /\ svc[src].sent[k].wire = "sent"
                          /\ svc[src].sent[k].msg.topic \in svc[n].subs}} :
           src \in Node}

Receive(n) ==
    /\ \E m \in WireMessages(n) :
           \E s2 \in OnMessage(svc[n], n, m, now) :
               /\ s2.nextSeq <= MaxPingPublishes
               /\ Step(n, s2)
    /\ UNCHANGED now

\* A caller of sendPing().
SendPing(n) ==
    /\ Len(svc[n].pings) < MaxPings
    /\ svc[n].nextSeq < MaxPingPublishes
    /\ \E rand \in 1..MaxRand :
           \E s2 \in SendPingCall(svc[n], n, rand, now) : Step(n, s2)
    /\ UNCHANGED now

\* The timer of a sendPing() fires.
PingTimeout(n) ==
    /\ \E i \in 1..Len(svc[n].pings) :
           /\ svc[n].pings[i].timer = "armed"
           /\ now >= svc[n].pings[i].due
           /\ Step(n, PingTimedOut(svc[n], i, now))
    /\ UNCHANGED now

\* A caller of the earlier request() while connected.
FixedRequest(n) ==
    /\ svc[n].conn = "connected"
    /\ Len(svc[n].fixedRequests) < MaxFixedRequests
    /\ \E rand \in 1..MaxRand, timeout \in RequestTimeouts :
           \E s2 \in FixedRequestCall(svc[n], REQUEST_TOPIC,
                                      FIXED_RESPONSE_TOPIC, rand, timeout,
                                      now) :
               Step(n, s2)
    /\ UNCHANGED now

\* The broker forwards a message on the response topic.
FixedDeliver(n) ==
    /\ svc[n].conn = "connected"
    /\ FIXED_RESPONSE_TOPIC \in svc[n].subs
    /\ \E m \in FixedResponses(svc[n]) :
           Step(n, FixedMessageHandlers(svc[n], 1, m, now))
    /\ UNCHANGED now

FixedTimeout(n) ==
    /\ \E i \in 1..Len(svc[n].fixedRequests) :
           /\ svc[n].fixedRequests[i].timer = "armed"
           /\ now >= svc[n].fixedRequests[i].issuedAt
                         + svc[n].fixedRequests[i].timeout
           /\ Step(n, FixedTimedOut(svc[n], i, now))
    /\ UNCHANGED now

\* The deadlines of the armed timers.
TimersOf(s) ==
    IF s.exited THEN {} ELSE
    ({s.drainTimer} \ {NoTimer})
    \cup ({s.interval} \ {NoTimer})
    \cup {x.due : x \in s.expiryTimers}
    \cup {s.requests[i].issuedAt + s.requests[i].timeout :
              i \in {k \in 1..Len(s.requests) : s.requests[k].timer = "armed"}}
    \cup {s.pings[i].due :
              i \in {k \in 1..Len(s.pings) : s.pings[k].timer = "armed"}}
    \cup {s.fixedRequests[i].issuedAt + s.fixedRequests[i].timeout :
              i \in {k \in 1..Len(s.fixedRequests) :
                         s.fixedRequests[k].timer = "armed"}}

Deadlines == UNION {TimersOf(svc[n]) : n \in Node}

\* Time passes, up to the next deadline and never past a due timer.
Tick(ms, limit) ==
    /\ \A d \in Deadlines : d > now
    /\ LET step == IF \E d \in Deadlines : d < now + ms
                   THEN (CHOOSE d \in Deadlines : \A e \in Deadlines : d <= e)
                   ELSE now + ms
       IN /\ step <= limit
          /\ now' = step
          /\ svc' = [n \in Node |->
                        [svc[n] EXCEPT !.burst = 0,
                                       !.quiet =
                                           IF @ + step - now > RATE_WAIT_MS
                                           THEN RATE_WAIT_MS
                                           ELSE @ + step - now]]
    /\ UNCHANGED retained

\* One service and its publish queue.
NextQueue ==
    \/ Connect("A")
    \/ Disconnect("A")
    \/ AppPublish("A")
    \/ PublishCallback("A")
    \/ DrainTimer("A")
    \/ Tick(TICK_MS, MaxQueueTime)

SpecQueue == Init /\ [][NextQueue]_vars

\* One service and the options its callers pass to publish().
NextOptions ==
    \/ Connect("A")
    \/ PublishWith("A")
    \/ PublishCallback("A")

SpecOptions == Init /\ [][NextOptions]_vars

\* One service, its publish queue and a connection that may drop.
NextPresence ==
    \/ Connect("A")
    \/ Drop("A")
    \/ Disconnect("A")
    \/ AppPublish("A")
    \/ PublishCallback("A")
    \/ DrainTimer("A")
    \/ Tick(TICK_MS, MaxQueueTime)

SpecPresence == InitReliable /\ [][NextPresence]_vars

\* One service, its requests and the messages that reach it.
NextRequest ==
    \/ Connect("A")
    \/ Request("A")
    \/ SubscribeDone("A")
    \/ RequestPublishError("A")
    \/ RequestTimeout("A")
    \/ Deliver("A")
    \/ Tick(TICK_MS, MaxRequestTime)

SpecRequest == Init /\ [][NextRequest]_vars

\* Two services: A probes, B answers; other clients answer too.
NextPing ==
    \/ Connect("A")
    \/ Connect("B")
    \/ SendPing("A")
    \/ Receive("A")
    \/ Receive("B")
    \/ Deliver("A")
    \/ PingTimeout("A")
    \/ Tick(PING_TICK_MS, MaxPingTime)

SpecPing == InitReliable /\ [][NextPing]_vars

\* The server answers the requests of other clients.
NextRespond ==
    \/ ServerConnect("A")
    \/ Drop("A")
    \/ PublishCallback("A")
    \/ Deliver("A")

SpecRespond == Init /\ [][NextRespond]_vars

\* The server and its control channel: dashboards come and go, the
\* broadcast interval ticks, commands arrive, the API publishes.
NextControl ==
    \/ ServerConnect("A")
    \/ SocketConnect("A")
    \/ SocketDisconnect("A")
    \/ Broadcast("A")
    \/ Control("A")
    \/ ApiPublish("A")
    \/ Tick(TICK_MS, MaxControlTime)

SpecControl == InitReliable /\ [][NextControl]_vars

\* The server and its expiry timers: dashboards come and go, the broadcast
\* interval ticks, the timers fire, the server shuts down.
NextExpiry ==
    \/ ServerConnect("A")
    \/ SocketConnect("A")
    \/ SocketDisconnect("A")
    \/ Broadcast("A")
    \/ ExpiryTimeout("A")
    \/ Shutdown("A")
    \/ Tick(SERVER_TICK_MS, MaxServerTime)

SpecExpiry == InitReliable /\ [][NextExpiry]_vars

\* One client and its requests on a response topic the caller chose.
NextFixed ==
    \/ Connect("A")
    \/ FixedRequest("A")
    \/ FixedDeliver("A")
    \/ FixedTimeout("A")
    \/ PublishCallback("A")
    \/ Tick(TICK_MS, MaxFixedTime)

SpecFixed == InitReliable /\ [][NextFixed]_vars

(* ============================ the claims ============================== *)
IsOffline(e) ==
    /\ e.msg.topic = STATUS_TOPIC
    /\ e.msg.payload.status = "offline"
    /\ e.msg.options.retain

ViaQueue(e) == e.via = "queue"

\* the publish() calls, by their order, of the messages in a sequence
Seqs(q) == [i \in 1..Len(q) |-> q[i].seq]
SentSeqs(log) == [i \in 1..Len(log) |-> log[i].msg.seq]

RequestsOf(n) == {svc[n].requests[i] : i \in 1..Len(svc[n].requests)}
EventsOf(n) == {svc[n].events[i] : i \in 1..Len(svc[n].events)}
CallsOf(r) == {r.calls[i] : i \in 1..Len(r.calls)}

C2_ResolvedOnlyByMatch ==
    \A n \in Node : \A r \in RequestsOf(n) : \A c \in CallsOf(r) :
        /\ c.kind = "resolved" => c.by # NoMessage
        /\ c.by # NoMessage =>
               /\ c.by.topic = r.responseTopic
               /\ c.by.correlationData = r.correlationData

\* C2 happens: a request saw a response without correlation data and one
\* with other correlation data, stayed pending, and was then resolved.
C2_Witness ==
    \E r \in RequestsOf("A") :
        r.sawMissing /\ r.sawMismatch /\ r.promise = "resolved"

\* C3 (as claimed): a request ends resolved by a matching response within
\* its timeout D, or rejected by the timeout no earlier than D, and in no
\* other way: while it has neither been resolved nor timed out it is
\* pending.
C3_ResolvedOrTimeout ==
    \A n \in Node : \A r \in RequestsOf(n) :
        /\ r.promise \in {"pending", "resolved", "timeout"}
        /\ r.promise = "resolved" => r.settledAt <= r.issuedAt + r.timeout
        /\ r.promise = "timeout" => r.settledAt >= r.issuedAt + r.timeout

\* C6 (as claimed): every message handed to the transport was handed over
\* by the drain loop of the publish queue.
C6_OnlyTheQueuePublishes ==
    \A n \in Node : \A i \in 1..Len(svc[n].sent) : ViaQueue(svc[n].sent[i])

\* C4: the messages the drain loop handed to the transport, followed by the
\* messages still queued, are the publish() calls in the order they were
\* made: nothing overtakes an earlier-enqueued message.
C4_FifoOrder ==
    \A n \in Node :
        SentSeqs(SelectSeq(svc[n].sent, ViaQueue)) \o Seqs(svc[n].messageQueue)
            = [i \in 1..svc[n].nextSeq |-> i]

\* C4 happens: a message enqueued while the drain loop was suspended at the
\* rate limit has been handed to the transport after the ones before it.
C4_Witness ==
    \E i \in 1..Len(svc["A"].sent) :
        /\ svc["A"].sent[i].msg.enqBusy
        /\ i > MAX_MESSAGES_PER_SECOND + 1

\* C5 (as claimed): no more than N = 10 messages are put on the wire within
\* one window; here, within one instant of the clock.
C5_AtMostNPerWindow ==
    \A n \in Node : svc[n].burst <= MAX_MESSAGES_PER_SECOND

\* C7 (as claimed): once disconnect() has closed the connection, the Offline
\* announcement was handed to the transport before client.end().
C7_OfflineHandedBeforeClose ==
    \A n \in Node :
        svc[n].conn = "closed" =>
            \E i \in 1..svc[n].closedAt : IsOffline(svc[n].sent[i])

\* C8 (as claimed): after a client that was connected has disconnected,
\* gracefully or not, the broker's retained presence value is Offline.
C8_RetainedOfflineAfterDisconnect ==
    svc["A"].everConnected /\ svc["A"].conn # "connected"
        => retained.status = "offline"

\* the events emitted for a correlation id
EventsFor(n, id) == {i \in 1..Len(svc[n].events) : svc[n].events[i].id = id}

\* C9 (as claimed): for the correlation id of every sendPing() at most one
\* event, a 'pong' or a 'ping-timeout', is ever emitted, and exactly one
\* once its timer has fired.
C9_OneEventPerPing ==
    \A n \in Node : \A p \in 1..Len(svc[n].pings) :
        /\ Cardinality(EventsFor(n, svc[n].pings[p].id)) <= 1
        /\ svc[n].pings[p].timer = "fired"
               => Cardinality(EventsFor(n, svc[n].pings[p].id)) = 1

\* C10: every pong that produced a latency event named a correlation id
\* that was outstanding at the receiver and was published by another
\* client than the receiver, and no service has handed a pong to its
\* queue or the transport that answers a ping of its own.
C10_PongAccepted ==
    \A n \in Node :
        /\ \A e \in EventsOf(n) :
               e.kind = "pong" => e.pending /\ e.from # n /\ e.responderId # n
        /\ \A i \in 1..Len(svc[n].sent) :
               svc[n].sent[i].msg.topic = PONG_TOPIC
                   => svc[n].sent[i].msg.payload.originalSender # n
        /\ \A i \in 1..Len(svc[n].messageQueue) :
               svc[n].messageQueue[i].topic = PONG_TOPIC
                   => svc[n].messageQueue[i].payload.originalSender # n

\* C10 happens: A received its own ping and did not answer it, B answered
\* it, and A accepted B's pong.
C10_Witness ==
    /\ \E e \in EventsOf("A") : e.kind = "pong" /\ e.from = "B"
    /\ \E i \in 1..Len(svc["B"].sent) :
           svc["B"].sent[i].msg.topic = PONG_TOPIC

\* the messages service n has passed to publish(): still queued, or handed
\* to the transport by the drain loop
Published(n) ==
    {svc[n].messageQueue[i] : i \in 1..Len(svc[n].messageQueue)}
    \cup {svc[n].sent[i].msg :
              i \in {k \in 1..Len(svc[n].sent) : ViaQueue(svc[n].sent[k])}}

PongsOf(n) == {p \in Published(n) : p.topic = PONG_TOPIC}

\* the pings on the wire
PingsOnWire ==
    UNION {{svc[src].sent[i].msg.payload :
               i \in {k \in 1..Len(svc[src].sent) :
                          /\ svc[src].sent[k].wire = "sent"
                          /\ svc[src].sent[k].msg.topic = PING_TOPIC}} :
           src \in Node}

\* C11: a service has enqueued one pong for every ping of another client
\* it has received, and every pong it enqueued names the service as
\* responder and carries the correlation id, the clientId (as original
\* sender) and the timestamp (as original timestamp) of such a ping.
C11_PongForEveryPing ==
    \A n \in Node :
        /\ Cardinality({p.seq : p \in PongsOf(n)}) = svc[n].pingsHeard
        /\ \A p \in PongsOf(n) :
               /\ p.payload.responderId = n
               /\ \E ping \in PingsOnWire :
                      /\ ping.clientId # n
                      /\ p.payload.originalSender = ping.clientId
                      /\ p.payload.correlationId = ping.correlationId
                      /\ p.payload.originalTimestamp = ping.timestamp

\* C11 happens: B has answered pings of A, one of them some time after the
\* ping was sent.
C11_Witness ==
    /\ svc["B"].pingsHeard >= 2
    /\ \E p \in PongsOf("B") :
           /\ p.payload.originalSender = "A"
           /\ p.payload.timestamp > p.payload.originalTimestamp

\* What the listeners handed to the transport while they ran for the
\* served message e of service n.
RepliesTo(n, e) ==
    {svc[n].sent[i] : i \in e.first..(e.first + e.count - 1)}

ServedOf(n) == {svc[n].served[i] : i \in 1..Len(svc[n].served)}

IsReplyTo(r, e, kinds) ==
    /\ r.via = "direct"
    /\ r.msg.topic = e.m.responseTopic
    /\ r.msg.options.correlationData = e.m.correlationData
    /\ r.msg.payload.kind \in kinds

\* C12: for every inbound message on a topic registered with onRequest that
\* carries a response topic and correlation data, the handler is invoked
\* with the parsed request and a response is published to exactly that
\* response topic with exactly that correlation data.  (Violated: a message
\* whose payload does not parse is answered without the handler.)
C12_HandlerInvokedForConforming ==
    \A n \in Node : \A e \in ServedOf(n) :
        IsConforming(e.m) =>
            /\ e.invoked >= 1
            /\ e.count >= 1
            /\ \A r \in RepliesTo(n, e) : IsReplyTo(r, e, {"result", "error"})

\* C13: an inbound message on an onRequest topic that lacks the response
\* topic or the correlation data is ignored: no handler is invoked and
\* nothing is handed to the transport or to publish() in reaction to it.
C13_NonConformingIgnored ==
    \A n \in Node : \A e \in ServedOf(n) :
        (e.m.responseTopic = NoTopic \/ e.m.correlationData = NoCorr) =>
            /\ e.invoked = 0
            /\ e.count = 0
            /\ e.enqueued = 0

C13_Witness ==
    \E e1, e2 \in ServedOf("A") :
        /\ e1.m.responseTopic = NoTopic /\ e1.m.correlationData # NoCorr
        /\ e2.m.responseTopic # NoTopic /\ e2.m.correlationData = NoCorr
        /\ e2.handlers = 2

\* C14: when handlers fail for a conforming request, as many error-shaped
\* payloads are published to the request's response topic with the
\* request's correlation data; every handler registered for the topic
\* still answers that request and every later conforming request, with
\* one response each.
C14_FailureAnsweredAndContained ==
    \A n \in Node : \A e \in ServedOf(n) :
        IsConforming(e.m) =>
            /\ e.count = e.handlers
            /\ \A r \in RepliesTo(n, e) : IsReplyTo(r, e, {"result", "error"})
            /\ e.m.json =>
                  \E errs \in SUBSET (e.first..(e.first + e.count - 1)) :
                      /\ Cardinality(errs) = e.failed
                      /\ \A i \in e.first..(e.first + e.count - 1) :
                             svc[n].sent[i].msg.payload.kind =
                                 (IF i \in errs THEN "error" ELSE "result")

C14_Witness ==
    /\ Len(svc["A"].served) = 2
    /\ LET e1 == svc["A"].served[1]
           e2 == svc["A"].served[2]
       IN /\ IsConforming(e1.m) /\ e1.m.json /\ e1.failed = 1
          /\ IsConforming(e2.m) /\ e2.m.json /\ e2.failed = 0
          /\ \E r \in RepliesTo("A", e1) : IsReplyTo(r, e1, {"error"})
          /\ \E r \in RepliesTo("A", e2) : IsReplyTo(r, e2, {"result"})

CommandsOf(n) == {svc[n].commands[i] : i \in 1..Len(svc[n].commands)}

\* C15: after a pause command was received while broadcasting, and until a
\* resume command, no message enqueued after the pause is handed to the
\* transport.  (Violated: pause stops the broadcast interval only, the
\* drain loop goes on.)
C15_NothingDrainedWhilePaused ==
    \A n \in Node :
        svc[n].pausedSeq >= 0 =>
            \A i \in 1..Len(svc[n].sent) :
                ViaQueue(svc[n].sent[i]) =>
                    svc[n].sent[i].msg.seq <= svc[n].pausedSeq

\* C16: every pause, resume or setRate command, whether the broadcast runs
\* or not, is acknowledged with exactly one message on the acknowledgment
\* channel.  (Violated: pause while stopped, and setRate.)
C16_OneAckPerCommand ==
    \A n \in Node : \A c \in CommandsOf(n) :
        c.action \in {"pause", "resume", "setRate"} => c.acks = 1

\* C17: after a setRate command with messagesPerSecond = k, at most k
\* messages are handed to the transport per window.  (Violated: the limit
\* stays MAX_MESSAGES_PER_SECOND.)
C17_SetRateChangesLimit ==
    \A n \in Node :
        svc[n].rateSet.k > 0 =>
            svc[n].burst - (IF now = svc[n].rateSet.at
                            THEN svc[n].rateSet.burst ELSE 0)
                <= svc[n].rateSet.k

\* C18: a control message whose action is none of pause, resume, setRate
\* changes nothing: not the broadcast interval, the queue, the rate
\* limit or any other field of the server, and no acknowledgment is
\* published.
C18_UnknownActionIgnored ==
    \A n \in Node : \A c \in CommandsOf(n) :
        c.action \notin {"pause", "resume", "setRate"} =>
            /\ ~c.changed
            /\ c.acks = 0
            /\ c.runs = c.ran

C18_Witness ==
    \E c1, c2 \in CommandsOf("A") :
        /\ c1.action = "calibrate" /\ c1.ran
        /\ c2.action = "calibrate" /\ ~c2.ran

\* The publishes to topic in expiryLog, oldest first.
LogOf(n, topic) == SelectSeq(svc[n].expiryLog, LAMBDA e : e.topic = topic)

TimersFor(n, topic) == {x \in svc[n].expiryTimers : x.topic = topic}

C20_OneTimerPerTopic ==
    \A n \in Node : \A topic \in ExpiryTopics :
        /\ Cardinality(TimersFor(n, topic)) <= 1
        /\ \A x \in TimersFor(n, topic) :
               topic \in DOMAIN svc[n].cleanup /\ svc[n].cleanup[topic] = x.id
        /\ topic \in DOMAIN svc[n].cleanup => TimersFor(n, topic) # {}

C20_Witness ==
    /\ svc["A"].timerSeq >= 4
    /\ \E i \in 1..Len(svc["A"].expiryLog) : svc["A"].expiryLog[i].clear
    /\ \A topic \in ExpiryTopics : Cardinality(TimersFor("A", topic)) = 1

\* C21 (as claimed): sendPing() never stores a correlation id that is a key
\* of pingTimestamps already, and no two pending requests carry the same
\* correlation data.
C21_NoIdReuseWhilePending ==
    \A n \in Node :
        /\ \A i \in 1..Len(svc[n].pings) : ~svc[n].pings[i].reused
        /\ \A i, j \in 1..Len(svc[n].requests) :
               (/\ i # j
                /\ svc[n].requests[i].promise = "pending"
                /\ svc[n].requests[j].promise = "pending")
                   => svc[n].requests[i].correlationData
                          # svc[n].requests[j].correlationData

ConnectsOf(n) == {svc[n].connects[i] : i \in 1..Len(svc[n].connects)}

\* C22 (as claimed): on every connect the Online announcement has reached
\* the transport when the subscriptions are issued.
C22_OnlineHandedBeforeSubscribe ==
    \A n \in Node : \A c \in ConnectsOf(n) : c.handed

\* C22 (amended): on every connect, initial or repeated, the listener
\* passes the retained Online announcement to publish() and then subscribes
\* to the control, pong and ping channels; the announcement has been
\* handed to the transport by then whenever the drain loop was idle and
\* below the rate limit when the connection came up.
C22_OnlineEnqueuedThenSubscribed ==
    \A n \in Node : \A c \in ConnectsOf(n) :
        /\ c.online
        /\ c.subscribed
        /\ c.idle => c.handed

\* C22 happens: a reconnect found the drain loop at the rate limit, and the
\* announcement was still queued when the listener subscribed.
C22_Witness ==
    \E c1, c2 \in ConnectsOf("A") :
        /\ ~c1.again /\ c1.handed
        /\ c2.again /\ ~c2.idle /\ ~c2.handed /\ c2.online /\ c2.subscribed

\* C23 (as claimed): every message the drain loop handed to the transport
\* carries a message expiry.
C23_EveryMessageHasExpiry ==
    \A n \in Node : \A i \in 1..Len(svc[n].sent) :
        ViaQueue(svc[n].sent[i]) => svc[n].sent[i].msg.options.expiry > 0

\* C24: a publish the transport rejects is handed over once and is not put
\* back; the messages accepted by publish() are handed to the transport
\* once each and in order, the rejected ones included, and the loop
\* neither stops with messages left nor waits for anything but the rate
\* limit.
C24_RejectedDroppedLoopGoesOn ==
    \A n \in Node :
        /\ SentSeqs(SelectSeq(svc[n].sent, ViaQueue))
               \o Seqs(svc[n].messageQueue)
                   = [i \in 1..svc[n].nextSeq |-> i]
        /\ ~svc[n].processingQueue => svc[n].messageQueue = <<>>
        /\ svc[n].processingQueue =>
               /\ svc[n].drainTimer # NoTimer
               /\ svc[n].messageCount >= MAX_MESSAGES_PER_SECOND

\* C24 happens: the transport rejected a publish of a connected client and
\* the next message of the queue went out after it.
C24_Witness ==
    /\ svc["A"].faults < MaxErrors
    /\ \E i, j \in 1..Len(svc["A"].sent) :
           /\ i < j
           /\ ViaQueue(svc["A"].sent[i]) /\ ViaQueue(svc["A"].sent[j])
           /\ svc["A"].sent[i].wire = "rejected"
           /\ svc["A"].sent[j].wire = "sent"
           /\ svc["A"].sent[j].msg.seq = svc["A"].sent[i].msg.seq + 1

\* C25 (as claimed): when the subscribe to a request's response topic
\* fails, the caller is not rejected with the subscribe error and the
\* deadline timer stays armed until it rejects the request.
C25_SubscribeErrorContained ==
    \A n \in Node : \A r \in RequestsOf(n) :
        r.sub = "err" =>
            /\ \A c \in CallsOf(r) : c.kind # "subscribe-error"
            /\ r.timer # "cleared"
            /\ r.promise \in {"pending", "timeout"}

\* C26 (as claimed): no resolve or reject call of a request is caused by an
\* inbound message whose payload does not parse.
C26_UnparseableNeverSettles ==
    \A n \in Node : \A r \in RequestsOf(n) : \A c \in CallsOf(r) :
        c.by # NoMessage => c.by.json

\* C27: no entry stays in pingTimestamps longer than the timeout: every
\* entry is at most 5 s old and a timer is armed for its id; and once the
\* timer of a ping has fired its id is no key of the map and an event was
\* emitted for it, a 'ping-timeout' if no pong was accepted for the id.
C27_PingResolvedByTimeout ==
    \A n \in Node :
        /\ \A id \in DOMAIN svc[n].pingTimestamps :
               /\ now <= svc[n].pingTimestamps[id] + PING_TIMEOUT_MS
               /\ \E i \in 1..Len(svc[n].pings) :
                      /\ svc[n].pings[i].id = id
                      /\ svc[n].pings[i].timer = "armed"
                      /\ svc[n].pings[i].due
                             = svc[n].pingTimestamps[id] + PING_TIMEOUT_MS
        /\ \A i \in 1..Len(svc[n].pings) :
               svc[n].pings[i].timer = "fired" =>
                   /\ svc[n].pings[i].id \notin DOMAIN svc[n].pingTimestamps
                   /\ \E e \in EventsOf(n) :
                          /\ e.id = svc[n].pings[i].id
                          /\ e.kind \in {"pong", "ping-timeout"}
                   /\ (\A e \in EventsOf(n) :
                           e.id = svc[n].pings[i].id => e.kind # "pong")
                          => \E e \in EventsOf(n) :
                                 /\ e.id = svc[n].pings[i].id
                                 /\ e.kind = "ping-timeout"

\* C27 happens: a ping without a pong was timed out at its deadline.
C27_Witness ==
    /\ now = PING_TIMEOUT_MS
    /\ svc["A"].pingTimestamps = EmptyMap
    /\ \E i \in 1..Len(svc["A"].pings) :
           /\ svc["A"].pings[i].timer = "fired"
           /\ \A e \in EventsOf("A") :
                  e.id = svc["A"].pings[i].id => e.kind = "ping-timeout"

\* C28: at most one run of processMessageQueue is in progress, and exactly
\* when processingQueue is set; no message was shifted from the queue
\* twice.
C28_OneDrainLoop ==
    \A n \in Node :
        /\ svc[n].drainRuns = (IF svc[n].processingQueue THEN 1 ELSE 0)
        /\ svc[n].drainTimer # NoTimer => svc[n].processingQueue
        /\ \A i, j \in 1..Len(svc[n].sent) :
               (/\ i # j
                /\ ViaQueue(svc[n].sent[i])
                /\ ViaQueue(svc[n].sent[j]))
                   => svc[n].sent[i].msg.seq # svc[n].sent[j].msg.seq

\* C28 happens: publish() was called twice while a run was suspended at
\* the rate limit, and the run is still the only one.
C28_Witness ==
    /\ svc["A"].drainTimer # NoTimer
    /\ svc["A"].drainRuns = 1
    /\ Len(svc["A"].messageQueue) >= 2
    /\ \A i \in 1..Len(svc["A"].messageQueue) :
           i >= 2 => svc["A"].messageQueue[i].enqBusy

\* C29: a request resolved by a matching response has its deadline timer
\* cancelled and its response topic unsubscribed; a request whose deadline
\* fired has its response topic unsubscribed; no subscription made for the
\* closed request remains afterwards, whatever arrives (the topic is
\* subscribed again only by a later request() call that was given the same
\* correlation data and so the same response topic).
ReleasedOrReused(n, i) ==
    LET r == svc[n].requests[i]
    IN r.responseTopic \in svc[n].subs =>
           \E j \in (i + 1)..Len(svc[n].requests) :
               /\ svc[n].requests[j].responseTopic = r.responseTopic
               /\ svc[n].requests[j].sub = "ok"
               /\ ~svc[n].requests[j].revoked
C29_ClosedRequestReleased ==
    \A n \in Node : \A i \in 1..Len(svc[n].requests) :
        LET r == svc[n].requests[i]
        IN /\ (\E c \in CallsOf(r) : c.kind = "resolved") =>
                  /\ r.timer \in {"cleared", "fired"}
                  /\ ReleasedOrReused(n, i)
           /\ r.promise = "resolved" => r.timer = "cleared"
           /\ r.timer = "fired" => ReleasedOrReused(n, i)

\* C29 happens: a subscribed request timed out, and its topic is released.
C29_Witness ==
    \E r \in RequestsOf("A") :
        /\ r.sub = "ok"
        /\ r.promise = "timeout"
        /\ Len(r.calls) = 1
        /\ r.settledAt > r.issuedAt
        /\ r.responseTopic \notin svc["A"].subs

\* C30: whenever the queue holds a message, a run of the drain loop is
\* suspended at the rate limit with its timer armed, due within the
\* second: no message is left in the queue without a loop to hand it over.
C30_QueuedMeansDrainPending ==
    \A n \in Node :
        svc[n].messageQueue # <<>> =>
            /\ svc[n].processingQueue
            /\ svc[n].drainRuns = 1
            /\ svc[n].drainTimer # NoTimer
            /\ svc[n].drainTimer >= now
            /\ svc[n].drainTimer <= now + RATE_WAIT_MS

\* C30 happens: messages accepted while the loop was suspended have been
\* handed to the transport after the wait, and the queue is empty again.
C30_Witness ==
    /\ svc["A"].messageQueue = <<>>
    /\ ~svc["A"].processingQueue
    /\ now = RATE_WAIT_MS
    /\ \E i \in 1..Len(svc["A"].sent) :
           /\ svc["A"].sent[i].msg.enqBusy
           /\ svc["A"].sent[i].msg.seq = svc["A"].nextSeq

\* The four topics one tick of the broadcast interval publishes on.
SensorTopics == {DATA_TOPIC, HUMIDITY_TOPIC, PRESSURE_TOPIC, ALL_TOPIC}

\* C31: after a pause command that stopped the broadcast, and until a
\* resume command, no sensor-data message is published, whatever dashboard
\* sockets connect or disconnect in between.  (Violated: a dashboard
\* connection calls startDataBroadcast() without regard to the pause.)
C31_NoBroadcastWhilePaused ==
    \A n \in Node :
        svc[n].pausedSeq >= 0 =>
            /\ \A i \in 1..Len(svc[n].sent) :
                   svc[n].sent[i].msg.topic \in SensorTopics =>
                       svc[n].sent[i].msg.seq <= svc[n].pausedSeq
            /\ \A i \in 1..Len(svc[n].messageQueue) :
                   svc[n].messageQueue[i].topic \in SensorTopics =>
                       svc[n].messageQueue[i].seq <= svc[n].pausedSeq

\* C32: a conforming request is answered with one response, however often
\* the connection was re-established before it arrived.  (Violated: every
\* 'connect' event registers one more request handler for the same topic,
\* and each registered handler answers.)
C32_OneResponsePerRequest ==
    \A n \in Node : \A e \in ServedOf(n) :
        IsConforming(e.m) =>
            /\ e.invoked <= 1
            /\ Cardinality({i \in e.first..(e.first + e.count - 1) :
                               IsReplyTo(svc[n].sent[i], e,
                                         {"result", "error"})}) <= 1

\* The hand-overs of the request message of closure r to the transport.
RequestPublishes(s, r) ==
    {k \in 1..Len(s.sent) :
        /\ s.sent[k].via = "direct"
        /\ s.sent[k].msg.topic = r.topic
        /\ s.sent[k].msg.options.correlationData = r.correlationData}

\* C33: once the deadline of a request has fired while the subscription to
\* its response topic was not yet acknowledged, no step registers its
\* response listener or publishes its request message.  (Violated: the
\* subscribe callback does both without looking at the deadline.)
C33_NothingAfterDeadline ==
    [][\A n \in Node : \A i \in 1..Len(svc[n].requests) :
           (/\ svc[n].requests[i].timer = "fired"
            /\ svc[n].requests[i].sub = "pending") =>
               /\ ~svc'[n].requests[i].listening
               /\ RequestPublishes(svc'[n], svc'[n].requests[i])
                      = RequestPublishes(svc[n], svc[n].requests[i])]_vars

\* C34: a request closed by a matching response or by its deadline has no
\* response listener registered any more, so there are never more
\* registered response listeners than pending requests.  (Violated: the
\* deadline callback does not remove the listener.)
C34_ClosedRequestHasNoListener ==
    \A n \in Node :
        /\ \A r \in RequestsOf(n) :
               r.promise \in {"resolved", "invalid-json", "timeout"} =>
                   ~r.listening
        /\ Cardinality({i \in 1..Len(svc[n].requests) :
                           svc[n].requests[i].listening})
               <= Cardinality({i \in 1..Len(svc[n].requests) :
                                  svc[n].requests[i].promise = "pending"})

\* C35: the drain loop makes a message wait only when the limit was reached
\* in the current window: whenever the loop has just suspended on the
\* rate-limit timer, client.publish was called within the preceding second
\* (the claim asks for N such calls; not even one is guaranteed).
\* (Violated: messageCount counts the successful publishes since the last
\* wait, however long ago they were.)
C35_WaitsOnlyAtTheLimit ==
    \A n \in Node :
        svc[n].drainTimer = now + RATE_WAIT_MS =>
            svc[n].quiet < RATE_WAIT_MS

FixedRequestsOf(n) ==
    {svc[n].fixedRequests[i] : i \in 1..Len(svc[n].fixedRequests)}

\* C36: in the variant with a caller-given response topic, as long as a
\* request is pending its response topic is subscribed, whatever happened
\* to other requests on the same topic, so that its own response can
\* still reach it.  (Violated: a request that is resolved or times out
\* unsubscribes the topic the others still wait on.)
C36_SharedTopicStaysSubscribed ==
    \A n \in Node : \A r \in FixedRequestsOf(n) :
        (r.promise = "pending" /\ svc[n].conn = "connected") =>
            r.responseTopic \in svc[n].subs

\* m is not the response to the request with closure r
Unmatched(r, m) ==
    \/ m.topic # r.responseTopic
    \/ m.correlationData = NoCorr
    \/ m.correlationData # r.correlationData

\* C37: whatever message that is not its response the client receives (on
\* another topic, or on the response topic without or with other
\* correlation data), a request is left as it was: its timer, its
\* listener, its promise and the calls made on it are unchanged, and so is
\* the subscription to its response topic.
C37_UnmatchedLeavesRequest ==
    \A n \in Node : \A i \in 1..Len(svc[n].requests) :
        LET r == svc[n].requests[i]
        IN \A m \in EnvMessages(svc[n]) :
               Unmatched(r, m) =>
                   \A s2 \in OnMessage(svc[n], n, m, now) :
                       /\ [s2.requests[i] EXCEPT
                              !.sawMissing = r.sawMissing,
                              !.sawMismatch = r.sawMismatch] = r
                       /\ (r.responseTopic \in s2.subs)
                              <=> (r.responseTopic \in svc[n].subs)

\* C37 happens: a request has seen a response without correlation data and
\* one with other correlation data, and is still pending with its timer
\* armed, its listener registered and its response topic subscribed.
C37_Witness ==
    \E r \in RequestsOf("A") :
        /\ r.sawMissing /\ r.sawMismatch
        /\ r.promise = "pending" /\ r.timer = "armed" /\ r.listening
        /\ r.calls = <<>>
        /\ r.responseTopic \in svc["A"].subs

\* a pong that names another client than n as the original sender
IsForeignPong(n, m) ==
    m.topic = PONG_TOPIC /\ m.payload.originalSender # n

\* C38: whatever pong naming another client as original sender the client
\* receives, from the modelled services or from outside, and whatever its
\* correlation id, no event is emitted and pingTimestamps keeps its
\* entries.
C38_ForeignPongIgnored ==
    \A n \in Node :
        \A m \in EnvMessages(svc[n]) \cup WireMessages(n) :
            IsForeignPong(n, m) =>
                \A s2 \in OnMessage(svc[n], n, m, now) :
                    /\ s2.events = svc[n].events
                    /\ s2.pingTimestamps = svc[n].pingTimestamps

\* C38 happens: A may receive a pong that carries the id of one of its
\* outstanding pings and names B as the original sender; receiving it
\* leaves A as it is, the ping still outstanding.
C38_Witness ==
    \E m \in EnvMessages(svc["A"]) :
        /\ IsForeignPong("A", m)
        /\ m.payload.originalSender = "B"
        /\ m.payload.correlationId \in DOMAIN svc["A"].pingTimestamps
        /\ OnMessage(svc["A"], "A", m, now) = {svc["A"]}
        /\ now > svc["A"].pingTimestamps[m.payload.correlationId]

\* C39: at most one setInterval timer of the broadcast exists, and exactly
\* when sensorDataInterval holds one; and a step creates it only when a
\* dashboard socket connects or a resume command is handled.
C39_OneBroadcastInterval ==
    /\ [](\A n \in Node :
              /\ svc[n].intervals <= 1
              /\ svc[n].intervals = 1 <=> svc[n].interval # NoTimer)
    /\ [][\A n \in Node :
              (svc[n].interval = NoTimer /\ svc'[n].interval # NoTimer) =>
                  \/ svc'[n].sockets = svc[n].sockets + 1
                  \/ /\ Len(svc'[n].commands) = Len(svc[n].commands) + 1
                     /\ svc'[n].commands[Len(svc'[n].commands)].action
                            = "resume"]_vars

\* C39 happens: a resume command arrived while the interval started for a
\* connected dashboard was running, and one interval is running still.
C39_Witness ==
    /\ svc["A"].sockets = 1
    /\ svc["A"].intervals = 1
    /\ \E c \in CommandsOf("A") : c.action = "resume" /\ c.ran /\ c.runs
    /\ svc["A"].broadcasts >= 1
====
